---- MODULE Spec2Model ----
(***************************************************************************)
(* Hyperliquid risk simulator: the live price feed (useWebSocket), the     *)
(* trading-activity loader (TradingActivity), the simulation state of App, *)
(* the positions hook (useHyperliquid), the normalizer (transformPositions)*)
(* and the risk functions of services/calculations.ts.                     *)
(*                                                                         *)
(* Each component is one record-valued variable whose fields carry the     *)
(* names of the React state and refs they model.  Handlers are operators   *)
(* from a component record to the component record after the handler ran,  *)
(* so that a handler calling another handler is composition.               *)
(*                                                                         *)
(* Time in the feed is kept as clocks relative to "now": sinceUpdate is    *)
(* Date.now() - lastUpdateRef.current (saturated at ThrottleMs, the only   *)
(* value it is compared with) and a timer holds the time left until it is  *)
(* due.  A timer that is due may fire at once or arbitrarily later.        *)
(***************************************************************************)
EXTENDS Integers, Sequences, FiniteSets, TLC

VARIABLES feed, feedLog, act, app, calc, hook, hist

vars == <<feed, feedLog, act, app, calc, hook, hist>>

Null == "null"

Min(a, b) == IF a <= b THEN a ELSE b
Max(a, b) == IF a >= b THEN a ELSE b

RECURSIVE Pow2(_)
Pow2(n) == IF n <= 0 THEN 1 ELSE 2 * Pow2(n - 1)

(***************************************************************************)
(* Bounds of the model                                                     *)
(***************************************************************************)
TickMs == 1000
MaxMids == 2
MaxStale == 1
MaxTimers == 1
MaxAddr == 2
MaxInflight == 2
MaxFetches == 1
MaxSteps == 3
MaxCalls == 2

(***************************************************************************)
(* useWebSocket: program constants                                         *)
(***************************************************************************)
ThrottleMs == 2000
MaxReconnectAttempts == 5
BaseDelayMs == 1000
MaxDelayMs == 30000

ErrConnection == "WebSocket connection error"
ErrLost == "Connection lost. Pull to refresh."

(***************************************************************************)
(* useWebSocket: helpers                                                   *)
(***************************************************************************)
\* The price maps a message can carry; 0 stands for the empty map {} that
\* `prices` starts with and for the null of pendingPricesRef.
Mids == 1..MaxMids

\* Every step starts with an empty record of what it did.
Fresh(h) == [h EXCEPT !.did = {}]
Event(h, e) == [h EXCEPT !.did = {e}]

\* setPrices(m); onPriceUpdate?.(m)
SetPrices(h, m) == [h EXCEPT !.prices = m, !.did = @ \cup {"setPrices"}]

\* updatePrices, the branch taken when the throttle interval has elapsed:
\* lastUpdateRef.current = now; setPrices(newPrices)
ApplyNow(h, m) == SetPrices([h EXCEPT !.sinceUpdate = 0], m)

\* The timer armed for the whole interval.
Buffer_FullWait(h, m) ==
    LET p == [h EXCEPT !.pendingPrices = m]
    IN  IF p.throttleRef = "null"
        THEN [p EXCEPT !.throttleRef = "armed", !.throttleRem = ThrottleMs]
        ELSE p

\* updatePrices, the other branch: keep the message as pending and arm the
\* throttle timer for the remaining wait unless throttleTimeoutRef is set.
Buffer(h, m) ==
    LET p == [h EXCEPT !.pendingPrices = m]
    IN  IF p.throttleRef = "null"
        THEN [p EXCEPT !.throttleRef = "armed",
                       !.throttleRem = ThrottleMs - h.sinceUpdate]
        ELSE p

\* The tag of a step in which updatePrices was called with the message m.
Received(m) == "received" \o ToString(m)

UpdatePrices(h, m) ==
    LET u == IF h.sinceUpdate >= ThrottleMs THEN ApplyNow(h, m) ELSE Buffer(h, m)
    IN  [u EXCEPT !.did = @ \cup {Received(m)}]

\* The callback of the throttle timer.
ThrottleCallback(h) ==
    LET a == IF h.pendingPrices # 0 /\ h.mountedRef
             THEN [ApplyNow(h, h.pendingPrices) EXCEPT !.pendingPrices = 0]
             ELSE h
    IN  [a EXCEPT !.throttleRef = "null", !.throttleRem = 0]

\* wsRef.current.close(): a socket that is still connecting fails (error, then
\* close), an open one closes; a closed one has nothing left to deliver.
CloseSocket(h) ==
    CASE h.ws = "connecting" -> [h EXCEPT !.stale.failing = @ + 1]
      [] h.ws = "open"       -> [h EXCEPT !.stale.closing = @ + 1]
      [] OTHER               -> h

\* connect(), in the closure of a render whose `enabled` is en.  The URL is a
\* constant, so `new WebSocket` does not throw and the catch is not reached.
Connect(h, en) ==
    IF ~en \/ h.ws = "open"
    THEN h
    ELSE [CloseSocket(h) EXCEPT !.ws = "connecting", !.did = @ \cup {"socket"}]

OnOpen_KeepsAttempts(h) ==
    IF ~h.mountedRef THEN h
    ELSE [h EXCEPT !.isConnected = TRUE, !.error = Null,
                   !.did = @ \cup {"setIsConnected", "setError"}]

\* ws.onopen
OnOpen(h) ==
    IF ~h.mountedRef THEN h
    ELSE [h EXCEPT !.isConnected = TRUE, !.error = Null, !.reconnectAttempts = 0,
                   !.did = @ \cup {"setIsConnected", "setError", "resetAttempts"}]

\* ws.onmessage; valid: the message is {channel: 'allMids', data: {mids}}
OnMessage(h, valid, m) ==
    IF ~h.mountedRef THEN h
    ELSE IF valid THEN UpdatePrices(h, m) ELSE h

\* ws.onerror
OnError(h) ==
    IF ~h.mountedRef THEN h
    ELSE [h EXCEPT !.error = ErrConnection, !.did = @ \cup {"setError"}]

ReconnectDelay_Linear(attempts) == Min(BaseDelayMs * (attempts + 1), MaxDelayMs)

\* Math.min(1000 * Math.pow(2, reconnectAttemptsRef.current), 30000)
ReconnectDelay(attempts) == Min(BaseDelayMs * Pow2(attempts), MaxDelayMs)

CanRetry_OffByOne(attempts, en) == attempts <= MaxReconnectAttempts /\ en

\* reconnectAttemptsRef.current < maxReconnectAttempts && enabled
CanRetry(attempts, en) == attempts < MaxReconnectAttempts /\ en

\* reconnectTimeoutRef.current = setTimeout(..., delay): the ref now names the
\* new timer; a timer armed earlier stays armed.
ArmReconnect(h, delay) ==
    [h EXCEPT !.rtimers = Append([i \in 1..Len(@) |-> [@[i] EXCEPT !.cur = FALSE]],
                                 [rem |-> delay, cur |-> TRUE]),
              !.did = @ \cup {"arm"}]

\* ws.onclose, in the closure of a render whose `enabled` is en
OnClose(h, en) ==
    IF ~h.mountedRef THEN h
    ELSE LET c == [h EXCEPT !.isConnected = FALSE,
                            !.did = @ \cup {"setIsConnected"}]
         IN  IF CanRetry(c.reconnectAttempts, en)
             THEN [ArmReconnect(c, ReconnectDelay(c.reconnectAttempts))
                      EXCEPT !.reconnectAttempts = @ + 1]
             ELSE IF c.reconnectAttempts >= MaxReconnectAttempts
                  THEN [c EXCEPT !.error = ErrLost, !.did = @ \cup {"setError"}]
                  ELSE c

\* The callback of a reconnect timer: if (mountedRef.current) connect()
ReconnectCallback(h, en) == IF h.mountedRef THEN Connect(h, en) ELSE h

\* reconnect()
Reconnect(h) ==
    Connect([h EXCEPT !.reconnectAttempts = 0, !.error = Null,
                      !.did = @ \cup {"setError", "resetAttempts"}], h.enabled)

Cleanup_KeepsMounted(h) ==
    LET a == [CloseSocket(h) EXCEPT !.ws = Null]
        b == [a EXCEPT !.rtimers = SelectSeq(@, LAMBDA t : ~t.cur)]
    IN  IF b.throttleRef = "armed" THEN [b EXCEPT !.throttleRef = "cleared"] ELSE b

\* The cleanup of the mount effect.
Cleanup(h) ==
    LET a == [CloseSocket(h) EXCEPT !.mountedRef = FALSE, !.ws = Null]
        b == [a EXCEPT !.rtimers = SelectSeq(@, LAMBDA t : ~t.cur)]
    IN  IF b.throttleRef = "armed" THEN [b EXCEPT !.throttleRef = "cleared"] ELSE b

\* The body of the mount effect.
MountEffect(h) ==
    LET a == [h EXCEPT !.mountedRef = TRUE]
    IN  IF a.enabled THEN Connect(a, a.enabled) ELSE a

\* A socket is created only by a connect() whose `enabled` is true, and its
\* handlers (and the reconnect timers they arm) live in that closure.
SocketClosureEnabled == TRUE

StaleCount(h) == h.stale.failing + h.stale.closing

(***************************************************************************)
(* useWebSocket: history kept beside the hook's state                      *)
(*   feed.did     what the last step did: the state setters it called      *)
(*                ("setPrices", "setIsConnected", "setError"), "socket"    *)
(*                for new WebSocket, "arm" for a reconnect timer armed,    *)
(*                "resetAttempts", and which event the step was: "drop"    *)
(*                (unexpected close of the socket in wsRef), "stale" (the  *)
(*                events of a socket close() was called on), "timer" (a    *)
(*                reconnect timer), "throttle" (the throttle timer),       *)
(*                "manual" (reconnect()), "effect", "unmount"              *)
(*   sinceApplied time since the last setPrices (saturated at ThrottleMs)  *)
(*   backoffLog   delays of the reconnect timers armed since the attempts  *)
(*                counter was last reset                                   *)
(***************************************************************************)
Logged(h, g) ==
    [g EXCEPT
       !.sinceApplied = IF "setPrices" \in h.did THEN 0 ELSE @,
       !.backoffLog   = IF "resetAttempts" \in h.did THEN <<>>
                        ELSE IF "arm" \in h.did
                             THEN Append(@, h.rtimers[Len(h.rtimers)].rem)
                             ELSE @]

FeedStep(h) ==
    /\ feed' = h
    /\ feedLog' = Logged(h, feedLog)

FeedInit(en) ==
    [enabled |-> en, alive |-> TRUE, mountedRef |-> TRUE,
     prices |-> 0, isConnected |-> FALSE, error |-> Null,
     ws |-> IF en THEN "connecting" ELSE Null,
     stale |-> [failing |-> 0, closing |-> 0],
     reconnectAttempts |-> 0, rtimers |-> <<>>,
     sinceUpdate |-> ThrottleMs, pendingPrices |-> 0,
     throttleRef |-> "null", throttleRem |-> 0,
     did |-> IF en THEN {"socket"} ELSE {}]

FeedLogInit ==
    [sinceApplied |-> ThrottleMs, backoffLog |-> <<>>]

(***************************************************************************)
(* useWebSocket: actions                                                   *)
(***************************************************************************)
\* Time passes.
Tick ==
    /\ feed' = [Fresh(feed) EXCEPT
                  !.sinceUpdate = Min(@ + TickMs, ThrottleMs),
                  !.throttleRem = Max(@ - TickMs, 0),
                  !.rtimers = [i \in 1..Len(@) |->
                                  [@[i] EXCEPT !.rem = Max(@ - TickMs, 0)]]]
    /\ feedLog' = [feedLog EXCEPT !.sinceApplied = Min(@ + TickMs, ThrottleMs)]
    /\ UNCHANGED <<act, app, calc, hook, hist>>

\* The socket in wsRef opens.
WsOpen ==
    /\ feed.ws = "connecting"
    /\ FeedStep(OnOpen([Fresh(feed) EXCEPT !.ws = "open"]))
    /\ UNCHANGED <<act, app, calc, hook, hist>>

\* A message arrives on the open socket.
WsMessage ==
    /\ feed.ws = "open"
    /\ \E valid \in BOOLEAN, m \in Mids :
         FeedStep(OnMessage(Fresh(feed), valid, m))
    /\ UNCHANGED <<act, app, calc, hook, hist>>

\* The socket in wsRef closes unexpectedly: the connection attempt fails or
\* the connection drops (error, then close), or the server closes it (close).
WsDrop ==
    /\ feed.ws \in {"connecting", "open"}
    /\ Len(feed.rtimers) < MaxTimers
    /\ \E withError \in BOOLEAN :
         LET a == [Event(feed, "drop") EXCEPT !.ws = "closed"]
             b == IF withError THEN OnError(a) ELSE a
         IN  FeedStep(OnClose(b, SocketClosureEnabled))
    /\ UNCHANGED <<act, app, calc, hook, hist>>

\* The events of a socket that close() was called on arrive: error and close
\* for one that was still connecting, close for one that was open.
StaleFail ==
    /\ feed.stale.failing > 0
    /\ Len(feed.rtimers) < MaxTimers
    /\ FeedStep(OnClose(OnError([Event(feed, "stale") EXCEPT !.stale.failing = @ - 1]),
                        SocketClosureEnabled))
    /\ UNCHANGED <<act, app, calc, hook, hist>>

StaleClose ==
    /\ feed.stale.closing > 0
    /\ Len(feed.rtimers) < MaxTimers
    /\ FeedStep(OnClose([Event(feed, "stale") EXCEPT !.stale.closing = @ - 1],
                        SocketClosureEnabled))
    /\ UNCHANGED <<act, app, calc, hook, hist>>

\* The throttle timer fires.
ThrottleFire ==
    /\ feed.throttleRef = "armed"
    /\ feed.throttleRem = 0
    /\ FeedStep(ThrottleCallback(Event(feed, "throttle")))
    /\ UNCHANGED <<act, app, calc, hook, hist>>

\* A reconnect timer fires.
ReconnectFire ==
    /\ \E i \in 1..Len(feed.rtimers) :
         /\ feed.rtimers[i].rem = 0
         /\ feed.ws = "connecting" => StaleCount(feed) < MaxStale
         /\ LET a == [Event(feed, "timer") EXCEPT
                        !.rtimers = [j \in 1..(Len(@) - 1) |->
                                        IF j < i THEN @[j] ELSE @[j + 1]]]
            IN  FeedStep(ReconnectCallback(a, SocketClosureEnabled))
    /\ UNCHANGED <<act, app, calc, hook, hist>>

\* The `enabled` option changes: the effect's cleanup runs, then its body.
SetEnabled ==
    /\ feed.alive
    /\ feed.ws \in {"connecting", "open"} => StaleCount(feed) < MaxStale
    /\ FeedStep(MountEffect(Cleanup([Event(feed, "effect") EXCEPT !.enabled = ~@])))
    /\ UNCHANGED <<act, app, calc, hook, hist>>

\* The caller invokes reconnect().
ManualReconnect ==
    /\ feed.alive
    /\ feed.ws = "connecting" => StaleCount(feed) < MaxStale
    /\ FeedStep(Reconnect(Event(feed, "manual")))
    /\ UNCHANGED <<act, app, calc, hook, hist>>

\* The component unmounts: the cleanup runs and the effect never runs again.
Unmount ==
    /\ feed.alive
    /\ feed.ws \in {"connecting", "open"} => StaleCount(feed) < MaxStale
    /\ FeedStep(Cleanup([Event(feed, "unmount") EXCEPT !.alive = FALSE]))
    /\ UNCHANGED <<act, app, calc, hook, hist>>

(***************************************************************************)
(* TradingActivity                                                         *)
(*   address     the address prop: 0 for null, else the number of a wallet *)
(*   openOrders, fills, ledgerUpdates, twapFills                           *)
(*               0 for the empty list, else the address the records held   *)
(*               were fetched for                                          *)
(*   inflight    the fetches awaited by loadTabData calls                  *)
(***************************************************************************)
Tabs == {"orders", "fills", "trades", "funds", "twap"}
Addresses == 1..MaxAddr

ActInit ==
    [address |-> 0, activeTab |-> "orders", isLoading |-> FALSE, error |-> Null,
     openOrders |-> 0, fills |-> 0, ledgerUpdates |-> 0, twapFills |-> 0,
     loadedTabs |-> {}, inflight |-> {}]

\* loadTabData(tab) up to its first await, in the closure of a render whose
\* address is a.address and whose loadedTabs is `loaded`.  The 'trades' case
\* awaits nothing when that render holds 'fills' as loaded: the call then runs
\* to its end at once.
LoadTabData(a, tab, loaded) ==
    IF a.address = 0 THEN a
    ELSE IF tab = "trades" /\ "fills" \in loaded
         THEN [a EXCEPT !.error = Null, !.isLoading = FALSE,
                        !.loadedTabs = @ \cup {tab}]
         ELSE [a EXCEPT !.isLoading = TRUE, !.error = Null,
                        !.inflight = @ \cup {[tab |-> tab, address |-> a.address]}]

\* useEffect(..., [activeTab, address]); `loaded` is the loadedTabs of the
\* render the effect belongs to.
LoadEffect(a, loaded) ==
    IF a.address = 0
    THEN [a EXCEPT !.openOrders = 0, !.fills = 0, !.ledgerUpdates = 0,
                   !.twapFills = 0, !.loadedTabs = {}]
    ELSE IF a.activeTab \notin loaded THEN LoadTabData(a, a.activeTab, loaded)
         ELSE a

\* useEffect(..., [address]): setLoadedTabs(new Set()); the pagination it also
\* resets is not modelled.
ResetEffect(a) == [a EXCEPT !.loadedTabs = {}]

\* loadTabData after its await returned: the setter of the tab's case, then
\* setLoadedTabs(prev => prev + tab), then the finally block.
Loaded(a, req) ==
    LET b == CASE req.tab = "orders" -> [a EXCEPT !.openOrders = req.address]
               [] req.tab = "fills"  -> [a EXCEPT !.fills = req.address]
               [] req.tab = "trades" -> [a EXCEPT !.fills = req.address,
                                                  !.loadedTabs = @ \cup {"fills"}]
               [] req.tab = "funds"  -> [a EXCEPT !.ledgerUpdates = req.address]
               [] req.tab = "twap"   -> [a EXCEPT !.twapFills = req.address]
    IN  [b EXCEPT !.loadedTabs = @ \cup {req.tab}, !.isLoading = FALSE,
                  !.inflight = @ \ {req}]

\* loadTabData after its await threw: the catch, then the finally block.
LoadFailed(a, req) ==
    [a EXCEPT !.error = "Failed to load data", !.isLoading = FALSE,
              !.inflight = @ \ {req}]

\* The records the active tab displays.
Shown(a) ==
    CASE a.activeTab = "orders" -> a.openOrders
      [] a.activeTab \in {"fills", "trades"} -> a.fills
      [] a.activeTab = "funds"  -> a.ledgerUpdates
      [] a.activeTab = "twap"   -> a.twapFills

\* The parent renders the component with another address.
SetAddress ==
    /\ \E addr \in (0..MaxAddr) \ {act.address} :
         /\ Cardinality(act.inflight) < MaxInflight
         /\ act' = ResetEffect(LoadEffect([act EXCEPT !.address = addr],
                                          act.loadedTabs))
    /\ UNCHANGED <<feed, feedLog, app, calc, hook, hist>>

\* The user picks another tab.
SetActiveTab ==
    /\ \E tab \in Tabs \ {act.activeTab} :
         /\ Cardinality(act.inflight) < MaxInflight
         /\ act' = LoadEffect([act EXCEPT !.activeTab = tab], act.loadedTabs)
    /\ UNCHANGED <<feed, feedLog, app, calc, hook, hist>>

\* A fetch returns its records.
FetchReturns ==
    /\ \E req \in act.inflight : act' = Loaded(act, req)
    /\ UNCHANGED <<feed, feedLog, app, calc, hook, hist>>

\* A fetch fails.
FetchThrows ==
    /\ \E req \in act.inflight : act' = LoadFailed(act, req)
    /\ UNCHANGED <<feed, feedLog, app, calc, hook, hist>>

ActNext ==
    \/ SetAddress
    \/ SetActiveTab
    \/ FetchReturns
    \/ FetchThrows

(***************************************************************************)
(* JavaScript numbers                                                      *)
(* A number is a record [t, n, d]: the rational n/d in lowest terms        *)
(* (t = "num", d > 0), an infinity (t = "inf", n its sign) or NaN          *)
(* (t = "nan").  JsNull, of the same shape, is the null of a `number |     *)
(* null` field.  Arithmetic is exact: rounding of doubles is not modelled. *)
(***************************************************************************)
RECURSIVE GCD(_, _)
GCD(a, b) == IF b = 0 THEN a ELSE GCD(b, a % b)

AbsInt(i) == IF i < 0 THEN -i ELSE i
SignInt(i) == IF i < 0 THEN -1 ELSE IF i > 0 THEN 1 ELSE 0

Ratio(n, d) ==
    LET g == GCD(AbsInt(n), AbsInt(d))
    IN  [t |-> "num", n |-> SignInt(d) * (n \div g), d |-> AbsInt(d) \div g]

Num(i) == [t |-> "num", n |-> i, d |-> 1]
NaN == [t |-> "nan", n |-> 0, d |-> 1]
Inf(sign) == [t |-> "inf", n |-> sign, d |-> 1]
JsNull == [t |-> "null", n |-> 0, d |-> 1]

IsNaN(x) == x.t = "nan"
IsFinite(x) == x.t = "num"
Sign(x) == SignInt(x.n)

Neg(x) == IF x.t \in {"num", "inf"} THEN [x EXCEPT !.n = -@] ELSE x

Abs(x) == IF x.t \in {"num", "inf"} THEN [x EXCEPT !.n = AbsInt(@)] ELSE x

Add(x, y) ==
    CASE IsNaN(x) \/ IsNaN(y) -> NaN
      [] x.t = "inf" /\ y.t = "inf" -> IF x.n = y.n THEN x ELSE NaN
      [] x.t = "inf" -> x
      [] y.t = "inf" -> y
      [] OTHER -> Ratio(x.n * y.d + y.n * x.d, x.d * y.d)

Sub(x, y) == Add(x, Neg(y))

Mul(x, y) ==
    CASE IsNaN(x) \/ IsNaN(y) -> NaN
      [] x.t = "inf" \/ y.t = "inf" ->
            IF Sign(x) * Sign(y) = 0 THEN NaN ELSE Inf(Sign(x) * Sign(y))
      [] OTHER -> Ratio(x.n * y.n, x.d * y.d)

\* x / y; the sign of a zero is not modelled (a zero divisor counts as +0).
Div(x, y) ==
    CASE IsNaN(x) \/ IsNaN(y) -> NaN
      [] x.t = "inf" /\ y.t = "inf" -> NaN
      [] x.t = "inf" -> Inf(IF Sign(y) < 0 THEN -x.n ELSE x.n)
      [] y.t = "inf" -> Num(0)
      [] y.n = 0 -> IF x.n = 0 THEN NaN ELSE Inf(Sign(x))
      [] OTHER -> Ratio(x.n * y.d, x.d * y.n)

\* x < y, x === y, x <= y, x >= y, x > y: all false when a side is NaN
Lt(x, y) ==
    CASE IsNaN(x) \/ IsNaN(y) -> FALSE
      [] x.t = "inf" /\ y.t = "inf" -> x.n < y.n
      [] x.t = "inf" -> x.n < 0
      [] y.t = "inf" -> y.n > 0
      [] OTHER -> x.n * y.d < y.n * x.d

StrictEq(x, y) == ~IsNaN(x) /\ ~IsNaN(y) /\ x = y
Le(x, y) == Lt(x, y) \/ StrictEq(x, y)
Ge(x, y) == Le(y, x)
Gt(x, y) == Lt(y, x)

\* !x for x of type number | null
Falsy(x) == x.t \in {"null", "nan"} \/ (x.t = "num" /\ x.n = 0)

(***************************************************************************)
(* Strings of the exchange's JSON are sequences of characters; a           *)
(* `string | null` field is [t |-> "str", s |-> chars] or StrNull.         *)
(***************************************************************************)
DigitValue ==
    [c \in {"0", "1", "2", "3", "4", "5", "6", "7", "8", "9"} |->
        CASE c = "0" -> 0 [] c = "1" -> 1 [] c = "2" -> 2 [] c = "3" -> 3
          [] c = "4" -> 4 [] c = "5" -> 5 [] c = "6" -> 6 [] c = "7" -> 7
          [] c = "8" -> 8 [] c = "9" -> 9]

IsDigit(c) == c \in DOMAIN DigitValue

RECURSIVE DigitPrefix(_)
DigitPrefix(s) ==
    IF s = <<>> \/ ~IsDigit(Head(s)) THEN <<>>
    ELSE <<Head(s)>> \o DigitPrefix(Tail(s))

RECURSIVE DigitsValue(_, _)
DigitsValue(s, acc) ==
    IF s = <<>> THEN acc ELSE DigitsValue(Tail(s), 10 * acc + DigitValue[Head(s)])

\* parseFloat on strings of digits with an optional leading minus sign: the
\* longest numeric prefix, NaN when there is none.  Fractions and exponents
\* are outside the strings the model draws.
ParseFloat(s) ==
    LET neg  == s # <<>> /\ Head(s) = "-"
        body == DigitPrefix(IF neg THEN Tail(s) ELSE s)
    IN  IF body = <<>> THEN NaN
        ELSE Num((IF neg THEN -1 ELSE 1) * DigitsValue(body, 0))

Str(s) == [t |-> "str", s |-> s]
StrNull == [t |-> "null", s |-> <<>>]

\* A string | null | undefined value used as a condition.
TruthyStr(x) == x.t = "str" /\ x.s # <<>>

\* The lookup without the default: parseFloat(undefined) is NaN.
MidOrZero_NoDefault(prices, coin) ==
    IF coin \in DOMAIN prices THEN prices[coin] ELSE <<>>

(***************************************************************************)
(* services/hyperliquid.ts: transformPositions                             *)
(* A raw position is [coin, szi, entryPx, liquidationPx, leverage,         *)
(* positionValue, unrealizedPnl]; leverage is [t |-> "number", value],     *)
(* [t |-> "object", value] or [t |-> "none", value]; prices maps some      *)
(* coins to strings.                                                       *)
(***************************************************************************)
\* prices[pos.coin] || '0'
MidOrZero(prices, coin) ==
    IF coin \in DOMAIN prices /\ prices[coin] # <<>> THEN prices[coin] ELSE <<"0">>

\* The leverage of a raw position, with the fallback of the last branch.
TransformLeverage(pos, positionValue) ==
    IF pos.leverage.t \in {"number", "object"}
    THEN pos.leverage.value
    ELSE Div(Abs(positionValue), Div(Abs(positionValue), Num(10)))

\* The null of a `Position | null` value.
NoPosition == [coin |-> Null]
IsPosition(p) == p.coin # Null

\* The callback of .map: the Position of one raw record, null when its size
\* is zero.
TransformOne(pos, prices) ==
    LET size          == ParseFloat(pos.szi)
        positionValue == ParseFloat(pos.positionValue)
        leverage      == TransformLeverage(pos, positionValue)
    IN  IF StrictEq(size, Num(0)) THEN NoPosition ELSE
        [coin             |-> pos.coin,
         side             |-> IF Gt(size, Num(0)) THEN "long" ELSE "short",
         size             |-> Abs(size),
         entryPrice       |-> ParseFloat(pos.entryPx),
         currentPrice     |-> ParseFloat(MidOrZero(prices, pos.coin)),
         leverage         |-> leverage,
         liquidationPrice |-> IF TruthyStr(pos.liquidationPx)
                              THEN ParseFloat(pos.liquidationPx.s)
                              ELSE JsNull,
         unrealizedPnl    |-> ParseFloat(pos.unrealizedPnl),
         positionValue    |-> Abs(positionValue),
         margin           |-> Div(Abs(positionValue), leverage)]

\* The filter that keeps the positive sizes only.
TransformPositions_LongsOnly(assetPositions, prices) ==
    SelectSeq([i \in 1..Len(assetPositions) |->
                  TransformOne(assetPositions[i], prices)],
              LAMBDA p : IsPosition(p) /\ p.side = "long")

\* transformPositions: map, then filter out the closed positions.
TransformPositions(assetPositions, prices) ==
    SelectSeq([i \in 1..Len(assetPositions) |->
                  TransformOne(assetPositions[i], prices)],
              IsPosition)

(***************************************************************************)
(* services/calculations.ts                                                *)
(***************************************************************************)
\* The percentage taken as a fraction.
CalculateNewPrice_NoPercent(currentPrice, percentChange) ==
    Mul(currentPrice, Add(Num(1), percentChange))

\* currentPrice * (1 + percentChange / 100)
CalculateNewPrice(currentPrice, percentChange) ==
    Mul(currentPrice, Add(Num(1), Div(percentChange, Num(100))))

\* Without the guard the comparison coerces a null liquidation price to 0.
IsPositionLiquidated_NoGuard(position, newPrice) ==
    LET liq == IF position.liquidationPrice.t = "null" THEN Num(0)
               ELSE position.liquidationPrice
    IN  IF position.side = "long" THEN Le(newPrice, liq) ELSE Ge(newPrice, liq)

IsPositionLiquidated(position, newPrice) ==
    IF Falsy(position.liquidationPrice) THEN FALSE
    ELSE IF position.side = "long"
         THEN Le(newPrice, position.liquidationPrice)
         ELSE Ge(newPrice, position.liquidationPrice)

\* The difference taken from the current price instead of the entry price.
CalculatePnL_FromCurrent(position, newPrice) ==
    LET priceDiff  == Sub(newPrice, position.currentPrice)
        multiplier == IF position.side = "long" THEN Num(1) ELSE Num(-1)
    IN  Mul(Mul(position.size, priceDiff), multiplier)

\* The side left out.
CalculatePnL_NoSide(position, newPrice) ==
    Mul(position.size, Sub(newPrice, position.entryPrice))

CalculatePnL(position, newPrice) ==
    LET priceDiff  == Sub(newPrice, position.entryPrice)
        multiplier == IF position.side = "long" THEN Num(1) ELSE Num(-1)
    IN  Mul(Mul(position.size, priceDiff), multiplier)

\* (pnl / position.margin) * 100
CalculateROE(position, newPrice) ==
    LET pnl == CalculatePnL(position, newPrice)
    IN  Mul(Div(pnl, position.margin), Num(100))

(***************************************************************************)
(* components/PositionStats.tsx                                            *)
(***************************************************************************)
\* x ?? y
Coalesce(x, y) == IF x.t = "null" THEN y ELSE x

\* The roi shown for a position under a simulation state.
StatsRoi(position, simulationState) ==
    LET unrealizedPnl == IF simulationState.isSimulating
                         THEN Coalesce(simulationState.simulatedPnl,
                                       position.unrealizedPnl)
                         ELSE position.unrealizedPnl
    IN  Mul(Div(unrealizedPnl, position.margin), Num(100))

(***************************************************************************)
(* The inputs drawn for the normalizer and the risk functions              *)
(***************************************************************************)
RawSizes == {<<"1", "0">>, <<"-", "1", "0">>, <<"0">>}

RawLiquidationPx ==
    {StrNull, Str(<<>>), Str(<<"0">>), Str(<<"8", "0">>), Str(<<"1", "2", "0">>),
     Str(<<"n", "/", "a">>)}

RawLeverages ==
    {[t |-> "number", value |-> Num(5)], [t |-> "object", value |-> Num(5)],
     [t |-> "none", value |-> JsNull]}

NoMids == [c \in {} |-> <<>>]
Mids100 == [c \in {"BTC", "ETH"} |-> <<"1", "0", "0">>]

RawPosition(coin, szi, entryPx, liquidationPx, leverage, positionValue) ==
    [coin |-> coin, szi |-> szi, entryPx |-> entryPx,
     liquidationPx |-> liquidationPx, leverage |-> leverage,
     positionValue |-> positionValue, unrealizedPnl |-> <<"0">>]

TestPrices == {Num(-5), Num(0), Num(75), Num(80), Num(85), Num(120), Num(125)}

RawPositionValues == {<<"1", "0", "0", "0">>, <<"-", "1", "0", "0", "0">>, <<"0">>}
RawPnls == {<<"0">>, <<"5">>}

\* The records that may follow the first one in a snapshot.
RawTail(coin, szi) ==
    RawPosition(coin, szi, <<"1", "0", "0">>, Str(<<"8", "0">>),
                [t |-> "number", value |-> Num(5)], <<"1", "0", "0", "0">>)

RawTails ==
    {<<>>} \cup {<<RawTail("ETH", a)>> : a \in {<<"1", "0">>, <<"0">>}}
           \cup {<<RawTail("ETH", a), RawTail("SOL", b)>> :
                    a \in {<<"1", "0">>, <<"0">>}, b \in {<<"-", "1", "0">>, <<"0">>}}

(***************************************************************************)
(* App: positions, selection and simulation                                *)
(*   app.fetches        the fetchPositions calls in flight, each with the  *)
(*                      handler that awaits it                             *)
(*   app.last           the handler or effect that ran last                *)
(***************************************************************************)
HistorySteps == 60

Lev5 == [t |-> "number", value |-> Num(5)]

\* What the exchange may answer for an account: one long, a long and a
\* short, the long after it was doubled, or no position.
Snapshots ==
    {<<RawPosition("BTC", <<"1", "0">>, <<"1", "0", "0">>, Str(<<"8", "0">>), Lev5,
                   <<"1", "0", "0", "0">>)>>,
     <<RawPosition("BTC", <<"1", "0">>, <<"1", "0", "0">>, Str(<<"8", "0">>), Lev5,
                   <<"1", "0", "0", "0">>),
       RawPosition("ETH", <<"-", "1", "0">>, <<"1", "0", "0">>,
                   Str(<<"1", "2", "0">>), Lev5, <<"1", "0", "0", "0">>)>>,
     <<RawPosition("BTC", <<"2", "0">>, <<"1", "0", "0">>, Str(<<"9", "0">>), Lev5,
                   <<"2", "0", "0", "0">>)>>,
     <<>>}

\* What fetchPositions may leave in `positions`: the normalised answer, or
\* nothing after a failed request.
FetchOutcomes == {TransformPositions(snap, Mids100) : snap \in Snapshots}

\* The mid-price maps the feed may publish.
LivePriceMaps ==
    {[c \in {"BTC", "ETH"} |-> IF c = "BTC" THEN <<"1", "2", "0">> ELSE <<"1", "0", "0">>],
     [c \in {"BTC", "ETH"} |-> IF c = "BTC" THEN <<"1", "0", "0">> ELSE <<"8", "0">>]}

Percents == {Num(-25), Num(-15), Num(20)}

InactiveSimulation ==
    [isSimulating |-> FALSE, simulatedPrice |-> JsNull, priceChange |-> Num(0),
     isLiquidated |-> FALSE, simulatedPnl |-> JsNull]

\* The price history by its length and its last sample; the samples before
\* the last are jittered at random.
NoHistory == [length |-> 0, last |-> JsNull]
GeneratePriceHistory(startPrice, endPrice, steps) ==
    [length |-> steps + 1, last |-> endPrice]

\* Array.prototype.find by coin; null when there is none.
FindCoin(list, coin) ==
    LET hits == {i \in 1..Len(list) : list[i].coin = coin}
    IN  IF hits = {} THEN NoPosition
        ELSE list[CHOOSE i \in hits : \A j \in hits : i <= j]

AppInit ==
    {[savedAddress |-> saved, isMobile |-> mobile,
      positions |-> <<>>, livePositions |-> <<>>, livePrices |-> NoMids,
      selectedPosition |-> NoPosition,
      simulationState |-> InactiveSimulation, priceHistory |-> NoHistory,
      fetches |-> IF saved = 0 THEN <<>> ELSE <<"mount">>,
      last |-> "mount"] : mobile \in BOOLEAN, saved \in 0..MaxAddr}

\* Every handler starts from the state of the render it belongs to.
Handler(a, name) == [a EXCEPT !.last = name]

ResetSimulation_KeepsHistory(a) ==
    [a EXCEPT !.simulationState = InactiveSimulation]

\* resetSimulation()
ResetSimulation(a) ==
    [a EXCEPT !.simulationState = InactiveSimulation, !.priceHistory = NoHistory]

\* handleSelectPosition with the livePositions of the render that made it.
HandleSelectPosition(a, position, livePositions) ==
    LET found == FindCoin(livePositions, position.coin)
        liveVersion == IF IsPosition(found) THEN found ELSE position
    IN  ResetSimulation([a EXCEPT !.selectedPosition = liveVersion])

HandleSimulate(a, percentChange) ==
    IF ~IsPosition(a.selectedPosition) THEN a
    ELSE LET newPrice == CalculateNewPrice(a.selectedPosition.currentPrice,
                                           percentChange)
         IN  [a EXCEPT
                !.priceHistory = GeneratePriceHistory(a.selectedPosition.currentPrice,
                                                      newPrice, HistorySteps),
                !.simulationState =
                    [isSimulating   |-> TRUE,
                     simulatedPrice |-> newPrice,
                     priceChange    |-> percentChange,
                     isLiquidated   |-> IsPositionLiquidated(a.selectedPosition,
                                                             newPrice),
                     simulatedPnl   |-> CalculatePnL(a.selectedPosition, newPrice)]]

\* The merge that also revalues the position at the live price.
WithLivePrice_Revalued(pos, livePrices) ==
    IF pos.coin \notin DOMAIN livePrices \/ livePrices[pos.coin] = <<>> THEN pos
    ELSE LET currentPrice == ParseFloat(livePrices[pos.coin])
         IN  [pos EXCEPT !.currentPrice = currentPrice,
                         !.positionValue = Mul(pos.size, currentPrice),
                         !.margin = Div(Mul(pos.size, currentPrice), pos.leverage)]

\* One position under the live prices.
WithLivePrice(pos, livePrices) ==
    IF pos.coin \notin DOMAIN livePrices \/ livePrices[pos.coin] = <<>> THEN pos
    ELSE LET currentPrice  == ParseFloat(livePrices[pos.coin])
             priceDiff     == Sub(currentPrice, pos.entryPrice)
             pnlMultiplier == IF pos.side = "long" THEN Num(1) ELSE Num(-1)
         IN  [pos EXCEPT !.currentPrice = currentPrice,
                         !.unrealizedPnl = Mul(Mul(priceDiff, pos.size), pnlMultiplier)]

\* The effect on [livePrices, positions].
MergeEffect(a) ==
    IF DOMAIN a.livePrices = {} THEN [a EXCEPT !.livePositions = a.positions]
    ELSE LET updated == [i \in 1..Len(a.positions) |->
                            WithLivePrice(a.positions[i], a.livePrices)]
             updatedSelected == IF IsPosition(a.selectedPosition)
                                THEN FindCoin(updated, a.selectedPosition.coin)
                                ELSE NoPosition
         IN  [a EXCEPT !.livePositions = updated,
                       !.selectedPosition = IF IsPosition(updatedSelected)
                                            THEN updatedSelected ELSE @]

\* The effects of a render r whose `positions` changed: the merge, then the
\* automatic selection on mobile, which sees the livePositions of r.
PositionsEffects(r) ==
    IF r.isMobile /\ r.positions # <<>> /\ ~IsPosition(r.selectedPosition)
    THEN HandleSelectPosition(MergeEffect(r), r.positions[1], r.livePositions)
    ELSE MergeEffect(r)

\* What runs when fetchPositions returns to the handler that awaited it.
Continuation(a, kind) ==
    IF kind = "address"
    THEN ResetSimulation([a EXCEPT !.selectedPosition = NoPosition])
    ELSE a

RemoveAt(seq, i) == [j \in 1..(Len(seq) - 1) |-> IF j < i THEN seq[j] ELSE seq[j + 1]]

\* The user submits an address.
SubmitAddress ==
    /\ Len(app.fetches) < MaxFetches
    /\ \E address \in 1..MaxAddr :
         app' = [Handler(app, "submit") EXCEPT !.savedAddress = address,
                                               !.fetches = Append(@, "address")]
    /\ UNCHANGED <<feed, feedLog, act, calc, hook, hist>>

\* The user clears the saved address.
ClearAddress ==
    /\ app.savedAddress # 0
    /\ app' = [Handler(app, "clear") EXCEPT !.savedAddress = 0]
    /\ UNCHANGED <<feed, feedLog, act, calc, hook, hist>>

\* Pull-to-refresh on the mobile layout.
PullToRefresh ==
    /\ app.isMobile /\ app.savedAddress # 0
    /\ \A i \in 1..Len(app.fetches) : app.fetches[i] # "refresh"
    /\ Len(app.fetches) < MaxFetches
    /\ app' = [Handler(app, "refresh") EXCEPT !.fetches = Append(@, "refresh")]
    /\ UNCHANGED <<feed, feedLog, act, calc, hook, hist>>

\* A fetchPositions call settles, with positions or with none.
FetchSettles ==
    /\ \E i \in 1..Len(app.fetches), outcome \in FetchOutcomes :
         LET kind == app.fetches[i]
             r    == Continuation([Handler(app, kind) EXCEPT
                                      !.positions = outcome,
                                      !.fetches = RemoveAt(@, i)], kind)
         IN  app' = PositionsEffects(r)
    /\ UNCHANGED <<feed, feedLog, act, calc, hook, hist>>

\* The feed publishes prices while it is enabled.
LivePrices ==
    /\ app.savedAddress # 0 /\ app.positions # <<>>
    /\ \E m \in LivePriceMaps :
         app' = MergeEffect([Handler(app, "prices") EXCEPT !.livePrices = m])
    /\ UNCHANGED <<feed, feedLog, act, calc, hook, hist>>

\* The user picks a position of the list.
SelectPosition ==
    /\ \E i \in 1..Len(app.livePositions) :
         app' = HandleSelectPosition(Handler(app, "select"), app.livePositions[i],
                                     app.livePositions)
    /\ UNCHANGED <<feed, feedLog, act, calc, hook, hist>>

\* The user runs a scenario.
Simulate ==
    /\ IsPosition(app.selectedPosition)
    /\ \E pct \in Percents : app' = HandleSimulate(Handler(app, "simulate"), pct)
    /\ UNCHANGED <<feed, feedLog, act, calc, hook, hist>>

\* The user resets the simulation.
Reset ==
    /\ IsPosition(app.selectedPosition)
    /\ app' = ResetSimulation(Handler(app, "reset"))
    /\ UNCHANGED <<feed, feedLog, act, calc, hook, hist>>

AppNext ==
    \/ SubmitAddress
    \/ ClearAddress
    \/ PullToRefresh
    \/ FetchSettles
    \/ LivePrices
    \/ SelectPosition
    \/ Simulate
    \/ Reset

(***************************************************************************)
(* The normalizer, the merge and the risk functions applied to drawn       *)
(* inputs                                                                  *)
(*   calc.stage  "raw": a snapshot (calc.raw followed by calc.rest) and a  *)
(*               mid-price map are given; "positions": transformPositions  *)
(*               has run; "merged": the live prices were merged in;        *)
(*               "done": the risk functions have run on the first          *)
(*               position                                                  *)
(***************************************************************************)
CalcInit ==
    {[stage |-> "raw",
      raw |-> [RawPosition("BTC", szi, <<"1", "0", "0">>, liq, lev, pv)
                  EXCEPT !.unrealizedPnl = upnl],
      rest |-> rest,
      prices |-> prices, price |-> price,
      positions |-> <<>>, liquidated |-> FALSE,
      pnl |-> [p \in TestPrices |-> JsNull], pnlAtEntry |-> JsNull,
      roe |-> JsNull, roi |-> JsNull] :
        szi \in RawSizes, liq \in RawLiquidationPx, lev \in RawLeverages,
        pv \in RawPositionValues, upnl \in RawPnls, rest \in RawTails,
        prices \in {NoMids, Mids100}, price \in TestPrices}

\* transformPositions(clearinghouseState, prices)
CalcTransform ==
    /\ calc.stage = "raw"
    /\ calc' = [calc EXCEPT !.stage = "positions",
                            !.positions = TransformPositions(<<calc.raw>> \o calc.rest,
                                                             calc.prices)]
    /\ UNCHANGED <<feed, feedLog, act, app, hook, hist>>

\* positions.map of the live-price merge effect
CalcMerge ==
    /\ calc.stage = "positions"
    /\ \E livePrices \in LivePriceMaps :
         calc' = [calc EXCEPT
                    !.stage = "merged",
                    !.positions = [i \in 1..Len(@) |-> WithLivePrice(@[i], livePrices)]]
    /\ UNCHANGED <<feed, feedLog, act, app, hook, hist>>

\* isPositionLiquidated, calculatePnL, calculateROE and the roi of
\* PositionStats on the first position
CalcEvaluate ==
    /\ calc.stage \in {"positions", "merged"}
    /\ calc.positions # <<>>
    /\ LET position == calc.positions[1]
       IN  calc' = [calc EXCEPT
                      !.stage = "done",
                      !.liquidated = IsPositionLiquidated(position, calc.price),
                      !.pnl = [p \in TestPrices |-> CalculatePnL(position, p)],
                      !.pnlAtEntry = CalculatePnL(position, position.entryPrice),
                      !.roe = CalculateROE(position, calc.price),
                      !.roi = StatsRoi(position, InactiveSimulation)]
    /\ UNCHANGED <<feed, feedLog, act, app, hook, hist>>

CalcNext ==
    \/ CalcTransform
    \/ CalcMerge
    \/ CalcEvaluate

(***************************************************************************)
(* hooks/useHyperliquid.ts: fetchPositions                                 *)
(*   hook.calls  the calls whose two requests are not both over: the       *)
(*               state of each request, what it answered, and whether      *)
(*               Promise.all has settled                                   *)
(*   hook.last   what the last step did                                    *)
(***************************************************************************)
ErrNoAddress == "Please enter a valid address"
ErrNoPositions == "No open positions found for this address"
ErrFetchPositions == "Failed to fetch positions"
ErrFetchPrices == "Failed to fetch prices"

NoAccount == [t |-> "null", assetPositions |-> <<>>]
Account(snapshot) == [t |-> "state", assetPositions |-> snapshot]

HookInit ==
    [positions |-> <<>>, isLoading |-> FALSE, error |-> Null,
     accountData |-> NoAccount, calls |-> <<>>, last |-> "mount"]

NewCall ==
    [user |-> "pending", mids |-> "pending", snapshot |-> <<>>, prices |-> NoMids,
     settled |-> FALSE]

\* fetchPositions up to its await.
FetchPositions(h, address) ==
    IF address = 0
    THEN [h EXCEPT !.error = ErrNoAddress, !.last = "invalid"]
    ELSE [h EXCEPT !.isLoading = TRUE, !.error = Null,
                   !.calls = Append(@, NewCall), !.last = "fetch"]

\* The try block after the await, then finally.
Joined(h, c) ==
    LET transformedPositions == TransformPositions(c.snapshot, c.prices)
        stored == [h EXCEPT !.accountData = Account(c.snapshot)]
    IN  [(IF transformedPositions = <<>>
          THEN [stored EXCEPT !.error = ErrNoPositions, !.positions = <<>>]
          ELSE [stored EXCEPT !.positions = transformedPositions])
         EXCEPT !.isLoading = FALSE, !.last = "joined"]

\* The catch block that keeps what was stored before.
Failed_KeepsData(h, message, tag) ==
    [h EXCEPT !.error = message, !.isLoading = FALSE, !.last = tag]

\* The catch block, then finally.
Failed(h, message, tag) ==
    [h EXCEPT !.error = message, !.positions = <<>>, !.accountData = NoAccount,
              !.isLoading = FALSE, !.last = tag]

\* A call leaves hook.calls when both its requests are over.
Keep(h, i, c) ==
    IF c.user # "pending" /\ c.mids # "pending"
    THEN [h EXCEPT !.calls = RemoveAt(@, i)]
    ELSE [h EXCEPT !.calls[i] = c]

\* A request of call i is over with the call record c: Promise.all settles
\* on the first rejection or on the second fulfilment, once.
RequestOver(h, i, c, message, tag) ==
    LET failed == c.user = "failed" \/ c.mids = "failed"
        joined == c.user = "ok" /\ c.mids = "ok"
        s      == [c EXCEPT !.settled = TRUE]
    IN  IF c.settled \/ ~(failed \/ joined)
        THEN Keep([h EXCEPT !.last = "ignored"], i, c)
        ELSE IF failed THEN Keep(Failed(h, message, tag), i, s)
        ELSE Keep(Joined(h, c), i, s)

HookFetch ==
    /\ Len(hook.calls) < MaxCalls
    /\ \E address \in 0..MaxAddr : hook' = FetchPositions(hook, address)
    /\ UNCHANGED <<feed, feedLog, act, app, calc, hist>>

\* fetchUserPositions answers.
UserResolves ==
    /\ \E i \in 1..Len(hook.calls), snapshot \in Snapshots :
         /\ hook.calls[i].user = "pending"
         /\ hook' = RequestOver(hook, i,
                                [hook.calls[i] EXCEPT !.user = "ok",
                                                      !.snapshot = snapshot],
                                Null, "joined")
    /\ UNCHANGED <<feed, feedLog, act, app, calc, hist>>

\* fetchUserPositions throws.
UserRejects ==
    /\ \E i \in 1..Len(hook.calls) :
         /\ hook.calls[i].user = "pending"
         /\ hook' = RequestOver(hook, i, [hook.calls[i] EXCEPT !.user = "failed"],
                                ErrFetchPositions, "userFailed")
    /\ UNCHANGED <<feed, feedLog, act, app, calc, hist>>

\* fetchAllPrices answers.
MidsResolves ==
    /\ \E i \in 1..Len(hook.calls), prices \in {NoMids, Mids100} :
         /\ hook.calls[i].mids = "pending"
         /\ hook' = RequestOver(hook, i,
                                [hook.calls[i] EXCEPT !.mids = "ok",
                                                      !.prices = prices],
                                Null, "joined")
    /\ UNCHANGED <<feed, feedLog, act, app, calc, hist>>

\* fetchAllPrices throws.
MidsRejects ==
    /\ \E i \in 1..Len(hook.calls) :
         /\ hook.calls[i].mids = "pending"
         /\ hook' = RequestOver(hook, i, [hook.calls[i] EXCEPT !.mids = "failed"],
                                ErrFetchPrices, "midsFailed")
    /\ UNCHANGED <<feed, feedLog, act, app, calc, hist>>

HookNext ==
    \/ HookFetch
    \/ UserResolves
    \/ UserRejects
    \/ MidsResolves
    \/ MidsRejects

(***************************************************************************)
(* services/calculations.ts: generatePriceHistory, one loop iteration per  *)
(* step                                                                    *)
(*   hist.i         the loop counter                                       *)
(*   hist.history   the samples pushed so far                              *)
(*   hist.returned  the function has returned hist.history                 *)
(*   hist.charted   PriceChart's data effect has run on the history        *)
(*   hist.lineData  the series it handed to lineSeries.setData             *)
(***************************************************************************)
\* Math.min and Math.max: NaN when an argument is NaN.
MathMin(x, y) == IF IsNaN(x) \/ IsNaN(y) THEN NaN ELSE IF Lt(y, x) THEN y ELSE x
MathMax(x, y) == IF IsNaN(x) \/ IsNaN(y) THEN NaN ELSE IF Lt(x, y) THEN y ELSE x

Volatility == Ratio(2, 100)
Overshoot == Ratio(5, 100)

\* What Math.random() may return: values of [0, 1).
Randoms == {Num(0), Ratio(1, 2), Ratio(99, 100)}

HistStarts == {Num(100), Num(0)}
HistEnds == {Num(85), Num(100), Num(120)}

HistInit ==
    {[startPrice |-> startPrice, endPrice |-> endPrice, steps |-> steps,
      i |-> 0, history |-> <<>>, returned |-> FALSE,
      charted |-> FALSE, lineData |-> <<>>] :
        startPrice \in HistStarts, endPrice \in HistEnds, steps \in 0..MaxSteps}

\* The price of the sample of iteration i, before the last step is forced.
JitteredPrice(startPrice, endPrice, steps, i, random) ==
    LET totalChange     == Sub(endPrice, startPrice)
        randomVariation == Mul(Mul(Mul(Sub(random, Ratio(1, 2)), Num(2)), Volatility),
                               Abs(startPrice))
        progress        == Div(Num(i), Num(steps))
        smoothProgress  == Mul(Mul(progress, progress),
                               Sub(Num(3), Mul(Num(2), progress)))
        price           == Add(Add(startPrice, Mul(totalChange, smoothProgress)),
                               randomVariation)
        margin          == Mul(Abs(totalChange), Overshoot)
    IN  IF Gt(totalChange, Num(0))
        THEN MathMax(MathMin(price, Add(endPrice, margin)), Sub(startPrice, margin))
        ELSE MathMin(MathMax(price, Sub(endPrice, margin)), Add(startPrice, margin))

\* The loop that never forces the last sample.
LoopBody_NoTarget(h, random) ==
    LET price == JitteredPrice(h.startPrice, h.endPrice, h.steps, h.i, random)
    IN  [h EXCEPT !.history = Append(@, [price |-> price, time |-> h.i]),
                  !.i = @ + 1]

\* The body of the for loop.
LoopBody(h, random) ==
    LET jittered == JitteredPrice(h.startPrice, h.endPrice, h.steps, h.i, random)
        price    == IF h.i = h.steps THEN h.endPrice ELSE jittered
    IN  [h EXCEPT !.history = Append(@, [price |-> price, time |-> h.i]),
                  !.i = @ + 1]

\* One iteration of the loop, with the value Math.random() returned.
HistIterate ==
    /\ hist.i <= hist.steps
    /\ \E random \in Randoms : hist' = LoopBody(hist, random)
    /\ UNCHANGED <<feed, feedLog, act, app, calc, hook>>

\* The loop is over: return history.
HistReturn ==
    /\ hist.i > hist.steps /\ ~hist.returned
    /\ hist' = [hist EXCEPT !.returned = TRUE]
    /\ UNCHANGED <<feed, feedLog, act, app, calc, hook>>

(***************************************************************************)
(* components/PriceChart.tsx: the line series of simulation mode.  A time  *)
(* in milliseconds is the record [s, ms] that stands for s * 1000 + ms,    *)
(* with ms in 0..999.                                                      *)
(***************************************************************************)
\* What Date.now() may return.
Nows == {[s |-> 1700000000, ms |-> 0], [s |-> 1700000000, ms |-> 999]}

\* msToSeconds: ms > 10000000000 ? Math.floor(ms / 1000) : Math.floor(ms)
MsToSeconds(t) ==
    IF t.s > 10000000 \/ (t.s = 10000000 /\ t.ms > 0)
    THEN t.s
    ELSE t.s * 1000 + t.ms

\* point.time || Date.now() - (priceHistory.length - index) * 60000, with the
\* index counted from 0: a time of 0 is falsy.
PointTime(point, index, length, now) ==
    IF point.time # 0
    THEN [s |-> point.time \div 1000, ms |-> point.time % 1000]
    ELSE [s |-> now.s - (length - index) * 60, ms |-> now.ms]

\* Array.prototype.sort by time is stable: a point goes behind the points
\* whose time is not greater.
InsertByTime(sorted, x) ==
    LET n == Cardinality({i \in 1..Len(sorted) : sorted[i].time <= x.time})
    IN  SubSeq(sorted, 1, n) \o <<x>> \o SubSeq(sorted, n + 1, Len(sorted))

RECURSIVE SortByTime(_)
SortByTime(points) ==
    IF points = <<>> THEN <<>>
    ELSE InsertByTime(SortByTime(SubSeq(points, 1, Len(points) - 1)),
                      points[Len(points)])

\* priceHistory.map(...).sort(...)
LineData(priceHistory, now) ==
    SortByTime([k \in 1..Len(priceHistory) |->
                  [time  |-> MsToSeconds(PointTime(priceHistory[k], k - 1,
                                                   Len(priceHistory), now)),
                   value |-> priceHistory[k].price]])

\* The data effect of PriceChart in simulation mode, on the history that
\* handleSimulate stored.
ChartData ==
    /\ hist.returned /\ ~hist.charted
    /\ Len(hist.history) > 0
    /\ \E now \in Nows :
         hist' = [hist EXCEPT !.lineData = LineData(hist.history, now),
                              !.charted = TRUE]
    /\ UNCHANGED <<feed, feedLog, act, app, calc, hook>>

HistNext ==
    \/ HistIterate
    \/ HistReturn
    \/ ChartData

(***************************************************************************)
(* Specifications of the live price feed                                   *)
(***************************************************************************)
FeedEvents ==
    \/ Tick
    \/ WsOpen
    \/ WsMessage
    \/ WsDrop
    \/ ThrottleFire
    \/ ReconnectFire

FeedNext ==
    \/ FeedEvents
    \/ StaleFail
    \/ StaleClose
    \/ SetEnabled
    \/ ManualReconnect
    \/ Unmount

FeedStart(en) ==
    /\ feed = FeedInit(en)
    /\ feedLog = FeedLogInit
    /\ act = Null
    /\ app = Null
    /\ calc = Null
    /\ hook = Null
    /\ hist = Null

\* The hook from its mount on, whatever its caller and the network do.
Spec == (\E en \in BOOLEAN : FeedStart(en)) /\ [][FeedNext]_vars

\* The hook of a component that stays mounted with the feed enabled.
SpecSteady == FeedStart(TRUE) /\ [][FeedEvents]_vars

\* The normalizer and the risk functions on drawn inputs.
SpecCalc ==
    /\ calc \in CalcInit
    /\ feed = Null /\ feedLog = Null /\ act = Null /\ app = Null
    /\ hook = Null /\ hist = Null
    /\ [][CalcNext]_vars

\* The positions hook from its mount.
SpecHook ==
    /\ hook = HookInit
    /\ feed = Null /\ feedLog = Null /\ act = Null /\ app = Null
    /\ calc = Null /\ hist = Null
    /\ [][HookNext]_vars

\* generatePriceHistory on drawn arguments and drawn random numbers.
SpecHistory ==
    /\ hist \in HistInit
    /\ feed = Null /\ feedLog = Null /\ act = Null /\ app = Null
    /\ calc = Null /\ hook = Null
    /\ [][HistNext]_vars

\* The application shell from its mount.
SpecApp ==
    /\ app \in AppInit
    /\ feed = Null /\ feedLog = Null /\ act = Null /\ calc = Null
    /\ hook = Null /\ hist = Null
    /\ [][AppNext]_vars

\* The trading-activity panel from its mount without an address.
SpecActivity ==
    /\ act = ActInit
    /\ feed = Null /\ feedLog = Null /\ app = Null /\ calc = Null
    /\ hook = Null /\ hist = Null
    /\ [][ActNext]_vars

(***************************************************************************)
(* Live price feed: properties                                             *)
(***************************************************************************)
Setters == {"setPrices", "setIsConnected", "setError"}

\* C1: when the feed's socket closes unexpectedly six times in a row with no
\* open in between, each of the first five closes arms one reconnect timer;
\* the sixth arms none and leaves isConnected false and error the terminal
\* connection-lost message, and from then on no timer and no socket is left
\* that could retry.
C1_RetryBudget ==
    /\ Len(feedLog.backoffLog) <= 5
    /\ ("drop" \in feed.did /\ "arm" \in feed.did) => Len(feed.rtimers) = 1
    /\ ("drop" \in feed.did /\ "arm" \notin feed.did) =>
          /\ Len(feedLog.backoffLog) = 5
          /\ feed.rtimers = <<>>
          /\ ~feed.isConnected
          /\ feed.error = ErrLost
    /\ feed.error = ErrLost =>
          /\ feed.rtimers = <<>>
          /\ feed.ws = "closed"
          /\ ~feed.isConnected

\* The sixth close in a row has just happened.
C1_Witness ==
    /\ "drop" \in feed.did
    /\ "arm" \notin feed.did
    /\ Len(feedLog.backoffLog) = 5
    /\ feed.error = ErrLost

\* C2: any two successive applications of a price map to `prices` (by
\* updatePrices directly or by the throttle timer) are at least throttleMs
\* apart.
C2_ThrottleGap ==
    [][("setPrices" \in feed'.did) => feedLog.sinceApplied >= ThrottleMs]_vars

C4_QuietWhileDisabled ==
    [][(feed.alive /\ ~feed.enabled /\ ~feed'.enabled /\ "manual" \notin feed'.did) =>
          feed'.did \cap (Setters \cup {"arm", "socket"}) = {}]_vars

BackoffTable == <<1000, 2000, 4000, 8000, 16000>>

\* C5: the n-th reconnect armed in a run of failures (n = 1..5) is scheduled
\* 1 s, 2 s, 4 s, 8 s, 16 s after the close that armed it: each delay is twice
\* the one before and none exceeds 30 s.
C5_Backoff ==
    /\ Len(feedLog.backoffLog) <= 5
    /\ \A n \in 1..Len(feedLog.backoffLog) :
          /\ feedLog.backoffLog[n] = BackoffTable[n]
          /\ feedLog.backoffLog[n] <= 30000
          /\ n > 1 => feedLog.backoffLog[n] = 2 * feedLog.backoffLog[n - 1]

\* The fifth reconnect of a run has been armed, 16 s ahead.
C5_Witness ==
    /\ "arm" \in feed.did
    /\ Len(feedLog.backoffLog) = 5
    /\ feed.rtimers[Len(feed.rtimers)].rem = 16000

(***************************************************************************)
(* TradingActivity: properties                                             *)
(***************************************************************************)
\* C20: a message that arrives before throttleMs has elapsed since the last
\* applied update is not applied but stored as pending, over any earlier
\* pending message; the one throttle timer is armed for the remaining wait
\* unless it is set already; when it fires it applies the message buffered
\* last and empties the buffer.
C20_ThrottleBuffering ==
    [][/\ \A m \in Mids :
            (Received(m) \in feed'.did /\ feedLog.sinceApplied < ThrottleMs) =>
               /\ "setPrices" \notin feed'.did
               /\ feed'.prices = feed.prices
               /\ feed'.pendingPrices = m
               /\ IF feed.throttleRef = "null"
                  THEN /\ feed'.throttleRef = "armed"
                       /\ feed'.throttleRem = ThrottleMs - feedLog.sinceApplied
                  ELSE /\ feed'.throttleRef = feed.throttleRef
                       /\ feed'.throttleRem = feed.throttleRem
       /\ ("throttle" \in feed'.did /\ feed.mountedRef) =>
               /\ feed.pendingPrices # 0
               /\ "setPrices" \in feed'.did
               /\ feed'.prices = feed.pendingPrices
               /\ feed'.pendingPrices = 0
               /\ feed'.throttleRef = "null"
       /\ feed'.pendingPrices # feed.pendingPrices =>
               \/ "throttle" \in feed'.did
               \/ Received(feed'.pendingPrices) \in feed'.did]_vars

\* The throttle timer has applied the buffered message 2 and emptied the
\* buffer.
C20_Witness ==
    /\ "throttle" \in feed.did /\ "setPrices" \in feed.did
    /\ feed.prices = 2 /\ feed.pendingPrices = 0
    /\ feed.throttleRef = "null"

\* C23: once the price map of a message has been applied, no price map of a
\* message received before it is applied afterwards: the throttle timer
\* never applies a pending message after a newer message was applied
\* immediately.
\* The step before was an immediate application: what is pending after it
\* was received before the message it applied.
AppliedImmediately(h) ==
    "setPrices" \in h.did /\ \E m \in Mids : Received(m) \in h.did

C23_NeverRegresses ==
    [][("throttle" \in feed'.did /\ "setPrices" \in feed'.did)
          => ~AppliedImmediately(feed)]_vars

\* C24: isConnected is true exactly when the feed's current socket is open,
\* and the callbacks of a socket superseded by connect() or reconnect() never
\* change isConnected or error and never schedule a reconnect.
C24_FlagConsistency ==
    [][/\ feed'.alive => (feed'.isConnected <=> feed'.ws = "open")
       /\ "stale" \in feed'.did =>
             /\ feed'.isConnected = feed.isConnected
             /\ feed'.error = feed.error
             /\ "arm" \notin feed'.did]_vars

\* C25: after the feed was disabled or its effect cleaned up while a throttle
\* timer was armed, and was enabled again, a message buffered afterwards is
\* still applied by a throttle timer: the cancelled timer does not block the
\* arming of a new one, so every buffered message has an armed timer.
C25_ThrottleSurvivesRestart ==
    [][\A m \in Mids :
          (Received(m) \in feed'.did /\ "setPrices" \notin feed'.did) =>
             /\ feed'.pendingPrices = m
             /\ feed'.throttleRef = "armed"]_vars

\* C6: after the address changed from one wallet to another and every fetch
\* has settled, the records the active tab displays are never those fetched
\* for another address than the current one.
C6_ShowsCurrentAddress ==
    (act.address # 0 /\ act.inflight = {}) => Shown(act) \in {0, act.address}

(***************************************************************************)
(* Risk functions: properties                                              *)
(***************************************************************************)
\* C9: for a position whose liquidationPrice is a number, isLiquidated is
\* true exactly when price <= liquidationPrice for a long and exactly when
\* price >= liquidationPrice for a short.
C9_LiquidationTest ==
    (calc.stage = "done" /\ calc.positions[1].liquidationPrice.t # "null") =>
        calc.liquidated =
            IF calc.positions[1].side = "long"
            THEN Le(calc.price, calc.positions[1].liquidationPrice)
            ELSE Ge(calc.price, calc.positions[1].liquidationPrice)

\* C10: isLiquidated is false for a position whose liquidationPrice is null,
\* whatever the price and the side.
C10_NoLiquidationPrice ==
    (calc.stage = "done" /\ calc.positions[1].liquidationPrice.t = "null") =>
        ~calc.liquidated

\* A long without liquidation price evaluated at a price of zero or less.
C10_Witness ==
    /\ calc.stage = "done"
    /\ calc.positions[1].liquidationPrice.t = "null"
    /\ calc.positions[1].side = "long"
    /\ Le(calc.price, Num(0))

(***************************************************************************)
(* App: properties                                                         *)
(***************************************************************************)
SelectedCoin(a) == a.selectedPosition.coin
SimulationInactive(a) ==
    a.simulationState = InactiveSimulation /\ a.priceHistory = NoHistory

\* C7: whenever the selected position changes, by selection, by a
\* new-address fetch or by the selected position being replaced, and on
\* reset, the simulation state is back to inactive.
C7_ResetOnEveryChange ==
    [][(app'.selectedPosition # app.selectedPosition \/ app'.last = "reset")
          => SimulationInactive(app')]_vars

\* The long of the scenario: size 10, entry 100, current 100, leverage 5,
\* liquidation 80, margin 200.
ScenarioPosition(p) ==
    /\ IsPosition(p)
    /\ p.side = "long" /\ p.size = Num(10) /\ p.entryPrice = Num(100)
    /\ p.currentPrice = Num(100) /\ p.leverage = Num(5)
    /\ p.liquidationPrice = Num(80) /\ p.margin = Num(200)

\* C8: simulating -15% on the scenario's long gives a new price of 85, a
\* P&L of -150 and no liquidation; simulating -25% gives 75 and liquidation.
C8_Scenario ==
    (app.last = "simulate" /\ ScenarioPosition(app.selectedPosition)) =>
        /\ app.simulationState.isSimulating
        /\ app.simulationState.priceChange = Num(-15) =>
              /\ app.simulationState.simulatedPrice = Num(85)
              /\ app.simulationState.simulatedPnl = Num(-150)
              /\ ~app.simulationState.isLiquidated
        /\ app.simulationState.priceChange = Num(-25) =>
              /\ app.simulationState.simulatedPrice = Num(75)
              /\ app.simulationState.isLiquidated

\* The -15% scenario was run on the long.
C8_Witness ==
    /\ app.last = "simulate" /\ ScenarioPosition(app.selectedPosition)
    /\ app.simulationState.priceChange = Num(-15)
    /\ app.simulationState.simulatedPnl = Num(-150)

\* The -25% scenario was run on the long.
C8_WitnessLiquidated ==
    /\ app.last = "simulate" /\ ScenarioPosition(app.selectedPosition)
    /\ app.simulationState.priceChange = Num(-25)
    /\ app.simulationState.isLiquidated

\* C11: for a position whose margin is zero, the ROE of the engine and the
\* roi of the position stats are a finite sentinel, never NaN or Infinity.
C11_ZeroMarginGuard ==
    (calc.stage = "done" /\ StrictEq(calc.positions[1].margin, Num(0))) =>
        IsFinite(calc.roe) /\ IsFinite(calc.roi)

SideSign(p) == IF p.side = "long" THEN Num(1) ELSE Num(-1)

\* The sign of unrealizedPnl is the sign of (currentPrice - entryPrice) * side-sign.
PnlSignMatches(p) ==
    Sign(p.unrealizedPnl) =
        Sign(Mul(Sub(p.currentPrice, p.entryPrice), SideSign(p)))

\* C12: every Position produced by the normalizer or by a live-price merge
\* has an unrealizedPnl whose sign matches (currentPrice - entryPrice) *
\* side-sign.
C12_PnlSign ==
    calc.stage # "raw" =>
        \A i \in 1..Len(calc.positions) : PnlSignMatches(calc.positions[i])

\* The record of the snapshot a position was made from.
RawOf(coin) ==
    LET snapshot == <<calc.raw>> \o calc.rest
    IN  snapshot[CHOOSE i \in 1..Len(snapshot) : snapshot[i].coin = coin]

MarginDerived(p) ==
    /\ p.margin = Div(Abs(ParseFloat(RawOf(p.coin).positionValue)), p.leverage)
    /\ p.margin = Div(p.positionValue, p.leverage)

CoinsOf(list) == [i \in 1..Len(list) |-> list[i].coin]

\* The records of the snapshot whose signed size is not zero, in its order.
OpenRecords ==
    SelectSeq(<<calc.raw>> \o calc.rest,
              LAMBDA r : ~StrictEq(ParseFloat(r.szi), Num(0)))

\* C14: the output of transformPositions has exactly one Position for each
\* record of the snapshot whose signed size is not zero, none for a record
\* of size zero, and keeps the order of the snapshot.
C14_FilterAndOrder ==
    calc.stage # "raw" =>
        /\ CoinsOf(calc.positions) = CoinsOf(OpenRecords)
        /\ \A i \in 1..Len(calc.positions) :
              /\ Gt(calc.positions[i].size, Num(0))
              /\ calc.positions[i].size = Abs(ParseFloat(OpenRecords[i].szi))
              /\ calc.positions[i].side =
                    IF Gt(ParseFloat(OpenRecords[i].szi), Num(0)) THEN "long" ELSE "short"

\* A closed record between two open ones was dropped.
C14_Witness ==
    /\ calc.stage = "positions"
    /\ CoinsOf(<<calc.raw>> \o calc.rest) = <<"BTC", "ETH", "SOL">>
    /\ CoinsOf(calc.positions) = <<"BTC", "SOL">>

\* C15: when the mid-price map has no entry for a position's symbol, the
\* normalized currentPrice is 0 and the position is in the output unless its
\* size is zero.
C15_MissingMid ==
    calc.stage = "positions" =>
        /\ \A i \in 1..Len(calc.positions) :
              calc.positions[i].coin \notin DOMAIN calc.prices =>
                 calc.positions[i].currentPrice = Num(0)
        /\ \A i \in 1..Len(OpenRecords) :
              OpenRecords[i].coin \notin DOMAIN calc.prices =>
                 \E k \in 1..Len(calc.positions) :
                    calc.positions[k].coin = OpenRecords[i].coin

\* An open position was normalised with an empty mid-price map.
C15_Witness ==
    /\ calc.stage = "positions"
    /\ calc.prices = NoMids
    /\ calc.positions # <<>>
    /\ calc.positions[1].coin = "BTC"
    /\ calc.positions[1].currentPrice = Num(0)

\* C16: pnl(position, price) = size * (price - entryPrice) * (+1 for a long,
\* -1 for a short) for every position and price, and pnl(position,
\* entryPrice) = 0 for every long and every short.
C16_PnlFormula ==
    calc.stage = "done" =>
        LET position == calc.positions[1]
        IN  /\ \A price \in TestPrices :
                  calc.pnl[price] =
                     Mul(Mul(position.size, Sub(price, position.entryPrice)),
                         SideSign(position))
            /\ calc.pnlAtEntry = Num(0)

\* A short of size 10 entered at 100 gains 250 at a price of 75, after a
\* merge moved its current price away from the entry price.
C16_Witness ==
    /\ calc.stage = "done"
    /\ calc.positions[1].side = "short"
    /\ calc.positions[1].currentPrice = Num(120)
    /\ calc.pnl[Num(75)] = Num(250)
    /\ calc.pnlAtEntry = Num(0)

\* C17: for a position with size > 0 and prices p1 < p2, pnl(position, p1) <
\* pnl(position, p2) when it is long and pnl(position, p1) > pnl(position,
\* p2) when it is short.
C17_PnlMonotone ==
    (calc.stage = "done" /\ Gt(calc.positions[1].size, Num(0))) =>
        \A p1, p2 \in TestPrices :
           Lt(p1, p2) =>
              IF calc.positions[1].side = "long"
              THEN Lt(calc.pnl[p1], calc.pnl[p2])
              ELSE Gt(calc.pnl[p1], calc.pnl[p2])

\* The P&L of a short falls from a price of -5 to a price of 125.
C17_Witness ==
    /\ calc.stage = "done"
    /\ calc.positions[1].side = "short"
    /\ Gt(calc.positions[1].size, Num(0))
    /\ Gt(calc.pnl[Num(-5)], calc.pnl[Num(125)])

(***************************************************************************)
(* generatePriceHistory: properties                                        *)
(***************************************************************************)
\* C18: for every start, end, steps >= 0 and every choice of jitter the
\* history returned has exactly steps+1 samples, with the time values
\* 0..steps in increasing order, and the price of the last one is end.
C18_LengthAndEnd ==
    hist.returned =>
        /\ Len(hist.history) = hist.steps + 1
        /\ \A k \in 1..Len(hist.history) : hist.history[k].time = k - 1
        /\ hist.history[Len(hist.history)].price = hist.endPrice

\* A history of the largest number of steps whose first sample was moved by
\* the jitter.
C18_Witness ==
    /\ hist.returned
    /\ hist.steps = MaxSteps
    /\ hist.endPrice # hist.startPrice
    /\ hist.history[1].price # hist.startPrice

(***************************************************************************)
(* Positions hook: properties                                              *)
(***************************************************************************)
\* C19: fetchPositions starts the clearinghouse-state request and the
\* all-mids request together and joins them; when either fails, positions
\* becomes empty, accountData null, error the message of the failing request
\* and isLoading false, and what the other request answers is not stored.
C19_FetchJoin ==
    [][/\ hook'.last = "fetch" =>
             /\ hook'.calls[Len(hook'.calls)].user = "pending"
             /\ hook'.calls[Len(hook'.calls)].mids = "pending"
       /\ hook'.last \in {"userFailed", "midsFailed"} =>
             /\ hook'.positions = <<>>
             /\ hook'.accountData = NoAccount
             /\ hook'.error = IF hook'.last = "userFailed" THEN ErrFetchPositions
                              ELSE ErrFetchPrices
             /\ ~hook'.isLoading
       /\ hook'.last = "ignored" =>
             /\ hook'.positions = hook.positions
             /\ hook'.accountData = hook.accountData
             /\ hook'.error = hook.error
             /\ hook'.isLoading = hook.isLoading]_vars

\* The all-mids request failed after an earlier call had stored positions,
\* and the answer of its clearinghouse-state request came too late.
C19_Witness ==
    /\ hook.last = "ignored" /\ hook.calls = <<>>
    /\ hook.error = ErrFetchPrices
    /\ hook.positions = <<>> /\ hook.accountData = NoAccount
    /\ ~hook.isLoading

\* C21: the normalized leverage is the bare number when the raw leverage is
\* a number, the nested value when it is an object with a value, and the
\* constant 10 when neither is present, for every position value including
\* zero.
C21_Leverage ==
    (calc.stage = "positions" /\ calc.positions # <<>>
        /\ calc.positions[1].coin = calc.raw.coin) =>
        calc.positions[1].leverage =
            IF calc.raw.leverage.t \in {"number", "object"}
            THEN calc.raw.leverage.value
            ELSE Num(10)

\* C22: for every start, end, steps >= 0 and every choice of jitter the first
\* sample of the history returned differs from start by at most 2% of
\* |start|.
C22_FirstSample ==
    hist.returned =>
        Le(Abs(Sub(hist.history[1].price, hist.startPrice)),
           Mul(Volatility, Abs(hist.startPrice)))

(***************************************************************************)
(* App: simulation state properties                                        *)
(***************************************************************************)
\* C26: while a simulation is active, simulatedPnl equals pnl(selectedPosition,
\* simulatedPrice) and isLiquidated equals isLiquidated(selectedPosition,
\* simulatedPrice) for the position selected now, after any sequence of
\* simulate, reset, select, address fetch, pull-to-refresh and live prices.
C26_SimulationConsistent ==
    (app.simulationState.isSimulating /\ IsPosition(app.selectedPosition)) =>
        /\ app.simulationState.simulatedPnl =
              CalculatePnL(app.selectedPosition, app.simulationState.simulatedPrice)
        /\ app.simulationState.isLiquidated =
              IsPositionLiquidated(app.selectedPosition,
                                   app.simulationState.simulatedPrice)


\* ---------------------------------------------------------------------
\* useHyperliquid: overlapping fetchPositions calls

\* C27: when fetchPositions calls overlap, isLoading is true for as long as
\* any call is still in flight (its Promise.all has not settled), and the
\* state left once all have settled is that of the call issued last.  The
\* formula states the isLoading half: some call unsettled implies isLoading.
C27_LoadingWhileInFlight ==
    (\E i \in 1..Len(hook.calls) : ~hook.calls[i].settled) => hook.isLoading


\* ---------------------------------------------------------------------
\* useWebSocket: the reconnect budget of a feed that stays mounted and enabled

\* C28: the reconnect budget is per run of failures.  Every successful open
\* sets the attempts counter to 0, clears the error and starts a new run; a
\* drop of an open connection is therefore a first failure: it arms one
\* reconnect timer 1 s ahead and does not set the terminal error; the
\* terminal connection-lost error is only set by the close of a connection
\* attempt that follows five reconnects armed since the last open; and every
\* reconnect timer that fires opens a new socket.
C28_BudgetPerRun ==
    [][/\ (feed.ws = "connecting" /\ feed'.ws = "open") =>
             /\ feed'.reconnectAttempts = 0
             /\ feed'.error = Null
             /\ feed'.isConnected
             /\ feedLog'.backoffLog = <<>>
       /\ (feed.ws = "open" /\ "drop" \in feed'.did) =>
             /\ "arm" \in feed'.did
             /\ feed'.rtimers = <<[rem |-> 1000, cur |-> TRUE]>>
             /\ feed'.reconnectAttempts = 1
             /\ feed'.error # ErrLost
       /\ ("drop" \in feed'.did /\ feed'.error = ErrLost) =>
             /\ feed.ws = "connecting"
             /\ feed.reconnectAttempts = 5
             /\ Len(feedLog.backoffLog) = 5
       /\ "timer" \in feed'.did => feed'.ws = "connecting"]_vars

\* An open connection that has delivered prices has just dropped and its
\* first reconnect is armed.
C28_Witness ==
    /\ "drop" \in feed.did
    /\ "arm" \in feed.did
    /\ feed.reconnectAttempts = 1
    /\ feed.prices # 0


\* ---------------------------------------------------------------------
\* App: the shape of the simulation state

C30_ChartOrder ==
    hist.charted =>
        /\ Len(hist.lineData) = Len(hist.history)
        /\ \A k \in 1..Len(hist.history) :
              hist.lineData[k].value = hist.history[k].price
        /\ hist.lineData[Len(hist.lineData)].value = hist.endPrice

====
